---- MODULE Spec2Model ----
(***************************************************************************)
(* Model of the ORCID registry search-and-merge pipeline of                *)
(* utils/orcid_api.py (class OrcidAPI): parse_record,                      *)
(* search_by_email_domains and merge_with_existing_data.                   *)
(*                                                                         *)
(* Values.  A year or Duration cell is a tagged record: Null (Python None  *)
(* or a pandas NaN), Num(n) (a number) or NonNumeric (a non-empty string   *)
(* that is not a number).  A text cell is a string, NoneStr standing for   *)
(* None/NaN.  A table (pandas DataFrame) is [cols, rows]: the set of its   *)
(* column names and the sequence of its rows; a row is a record of the     *)
(* modelled columns, and the field of a column the table does not have is  *)
(* null (what pandas.concat fills in when it aligns columns).              *)
(***************************************************************************)
EXTENDS Integers, Sequences, FiniteSets, TLC

\* ---------------------------------------------------------------- bounds
\* Identifiers the registry returns for one search.
MaxIds == 2
\* Employment entries the registry holds in total over the records of one search.
MaxEntries == 2
\* Rows of an input table of merge_with_existing_data.
MaxRows == 2

\* Public and non-public email entries of one record.
MaxEmails == 2

\* search_by_email_domains calls on one OrcidAPI instance.
MaxCalls == 2

\* ---------------------------------------------------------------- values
Null == [k |-> "null", v |-> 0]
Num(n) == [k |-> "int", v |-> n]
NonNumeric == [k |-> "str", v |-> 0]
NoneStr == "<None>"

IsNull(c) == c.k = "null"
IsNum(c) == c.k = "int"

\* Python truthiness of a year value: None and 0 are falsy, a non-empty string is truthy.
Truthy(c) == \/ c.k = "str"
             \/ c.k = "int" /\ c.v # 0

\* pd.to_numeric(x, errors='coerce'): a number stays, anything else becomes NaN.
to_numeric(c) == IF IsNum(c) THEN c ELSE Null

\* Subtraction of two numeric cells, NaN-propagating (pandas Series arithmetic).
NumSub(a, b) == IF IsNum(a) /\ IsNum(b) THEN Num(a.v - b.v) ELSE Null

\* The year values a registry record or a spreadsheet cell may hold.
YearVals == {Null, NonNumeric, Num(0), Num(1), Num(2)}

\* ---------------------------------------------------------------- columns
KeyColumns == {"ORCID ID", "Org Affiliation Relation Role", "Start Year", "End Year"}

\* The keys of the dict parse_record builds for one employment entry.
ParseColumns == {"ORCID ID", "Given Names", "Family Name",
                 "Org Affiliation Relation Role", "Org Affiliation Relation Title",
                 "Department", "Start Year", "End Year", "Duration", "Date Created",
                 "Last Modified", "Source", "Identifier Type", "Identifier Value",
                 "Email Addresses", "Organization Name"}

RequiredColumns == {"ORCID ID", "Given Names", "Family Name",
                    "Org Affiliation Relation Role", "Start Year", "End Year",
                    "Department", "Source", "Email Addresses", "Organization Name"}

EmptyColumns == {"ORCID ID", "Given Names", "Family Name",
                 "Org Affiliation Relation Role", "Start Year", "End Year", "Duration",
                 "Department", "Source", "Email Addresses", "Organization Name"}

\* pd.DataFrame(): no columns, no rows.
EmptyFrame == [cols |-> {}, rows |-> <<>>]

\* DataFrame.empty
IsEmpty(t) == Len(t.rows) = 0

\* ---------------------------------------------------------------- registry payloads
\* One employment-summary entry of a record.  ok = FALSE: the entry is not a JSON
\* object (structurally malformed), so emp.get raises AttributeError.
Entries == [ok : {TRUE}, start : YearVals, end : YearVals, dept : {"Physics"}]
             \cup {[ok |-> FALSE, start |-> Null, end |-> Null, dept |-> ""]}

\* The person.emails.email section of a record.
EmailEntries == {[email |-> "pub@example.edu", visibility |-> "public"],
                 [email |-> "lim@example.edu", visibility |-> "limited"],
                 [email |-> "prv@example.edu", visibility |-> "private"],
                 [email |-> "", visibility |-> "public"],
                 [email |-> "alt@example.org", visibility |-> "public"]}

SeqsUpTo(S, n) == UNION {[1..m -> S] : m \in 0..n}

\* A fetched record: person_ok = FALSE when "person" is not a JSON object.
RecordOf(pok, ems, emps) == [person_ok |-> pok, emails |-> ems, employments |-> emps]

\* ---------------------------------------------------------------- parse_record
\* ", ".join(emails): the pieces of the joined string, separators included.
RECURSIVE JoinComma(_)
JoinComma(emails) ==
    IF Len(emails) = 0 THEN <<>>
    ELSE IF Len(emails) = 1 THEN emails
    ELSE <<Head(emails), ", ">> \o JoinComma(Tail(emails))

\* PublicEmails with the visibility test left out: every address is returned.
AllEmails(section) ==
    [i \in DOMAIN section |-> section[i].email]

\* Lines 49-52: the emails whose visibility is public (and whose address is truthy).
RECURSIVE PublicEmails(_)
PublicEmails(section) ==
    IF Len(section) = 0 THEN <<>>
    ELSE LET e == Head(section)
             rest == PublicEmails(Tail(section))
         IN IF e.email # "" /\ e.visibility = "public" THEN <<e.email>> \o rest ELSE rest

\* Line 76: end_year - start_year if (start_year and end_year) else None.
\* The subtraction raises TypeError when a truthy operand is a string.
DurationRaises(start_year, end_year) ==
    Truthy(start_year) /\ Truthy(end_year) /\ ~(IsNum(start_year) /\ IsNum(end_year))

ParsedDuration(start_year, end_year) ==
    IF Truthy(start_year) /\ Truthy(end_year) THEN NumSub(end_year, start_year) ELSE Null

\* Lines 67-84: the affiliation dict of one employment entry.
Affiliation(emp, orcid_id, emails) ==
    [id |-> orcid_id, role |-> "EMPLOYMENT", start |-> emp.start, end |-> emp.end,
     dept |-> emp.dept, source |-> "ORCID API",
     duration |-> ParsedDuration(emp.start, emp.end),
     emails |-> JoinComma(emails)]

\* Lines 59-85: the loop over the employment section; an exception leaves the loop
\* with the affiliations appended so far.
RECURSIVE ParseEmployments(_, _, _, _)
ParseEmployments(section, orcid_id, emails, acc) ==
    IF Len(section) = 0 THEN [affiliations |-> acc, error |-> ""]
    ELSE LET emp == Head(section) IN
         IF ~emp.ok THEN [affiliations |-> acc, error |-> "AttributeError"]
         ELSE IF DurationRaises(emp.start, emp.end)
              THEN [affiliations |-> acc, error |-> "TypeError"]
         ELSE ParseEmployments(Tail(section), orcid_id, emails,
                               Append(acc, Affiliation(emp, orcid_id, emails)))

\* parse_record(record, orcid_id): the affiliations, the emails, and the exception
\* its try block caught ("" when none).
parse_record(record, orcid_id) ==
    IF ~record.person_ok
    THEN [affiliations |-> <<>>, emails |-> <<>>, error |-> "AttributeError"]
    ELSE LET emails == PublicEmails(record.emails)
             done == ParseEmployments(record.employments, orcid_id, emails, <<>>)
         IN [affiliations |-> done.affiliations, emails |-> emails, error |-> done.error]

\* ---------------------------------------------------------------- state
VARIABLES
    pc,                \* position of the search_by_email_domains call
    domains,           \* the argument of the current call
    search_results,    \* self.search_results, the telemetry dict
    all_affiliations,  \* the local list of the current call
    idx,               \* position of the for loop in search_results.orcid_ids
    served,            \* employment entries the registry has sent in this call
    requests,          \* the HTTP requests the current call has issued, in order
    responses,         \* what the registry answered to each record request, in order
    ret                \* the table the last call returned

svars == <<pc, domains, search_results, all_affiliations, idx, served,
           requests, responses, ret>>

VARIABLES
    mpc,          \* "start", "merged" (after merge(A, B)), "again" (after the repeat)
    api_data,     \* the caller's API table, as it is now
    file_data,    \* the caller's file table, as it is now
    api_in,       \* the API table as it was before the first call
    file_in,      \* the file table as it was before the first call
    merged,       \* the outcome of merge_with_existing_data(api_data, file_data)
    again         \* the outcome of merge_with_existing_data(merged, file_data)

mvars == <<mpc, api_data, file_data, api_in, file_in, merged, again>>

VARIABLES
    ppc,          \* "start", "parsed" (after parse_record(payload, orcid_id))
    payload,      \* the record handed to parse_record
    parse_out     \* what parse_record returned, and the exception it caught

pvars == <<ppc, payload, parse_out>>

VARIABLES
    calls,        \* search_by_email_domains calls started on this instance
    earlier       \* the telemetry dict the previous call returned: its content at
                  \* return, and whether self.search_results is still that dict

cvars == <<calls, earlier>>

VARIABLES
    session_state,  \* st.session_state: api_data, file_data, merged_data
    uploaded_file,  \* the file the upload widget holds
    merge_button,   \* the last script run rendered "Merge File and API Data"
    run_error,      \* the exception that ended the last script run ("" when none)
    active          \* the dataset the analysis tab selected in the last script run

dvars == <<session_state, uploaded_file, merge_button, run_error, active>>

vars == <<svars, mvars, pvars, cvars, dvars>>

\* ---------------------------------------------------------------- search inputs
BASE_URL == "https://pub.orcid.org/v3.0"

DomainLists == {<<>>, <<"example.edu", "example.org">>}

IdNames == <<"A001", "A002", "A003", "A004">>

\* The identifiers of a search response with n results, in response order.
ResponseIds(n) == SubSeq(IdNames, 1, n)

\* The ways the top-level search request fails: transport, status, XML, num-found.
SearchErrors == {"ConnectionError", "HTTPError", "ParseError", "ValueError"}

\* The ways one record fetch fails: transport or status, response body not JSON.
FetchErrors == {"HTTPError", "JSONDecodeError"}

SearchEmails == <<[email |-> "pub@example.edu", visibility |-> "public"],
                  [email |-> "lim@example.edu", visibility |-> "limited"]>>

\* The year pairs (start, end) of the employment entries the registry sends: a closed
\* and an inverted period, a year 0, an open-ended entry, and a non-numeric start
\* year with and without an end year.
SearchYears == {<<Num(2015), Num(2020)>>, <<Num(2), Num(1)>>, <<Num(0), Num(2)>>,
                <<Num(1), Null>>, <<NonNumeric, Num(1)>>, <<NonNumeric, Null>>}

SearchEntries ==
    {[ok |-> TRUE, start |-> y[1], end |-> y[2], dept |-> "Physics"] : y \in SearchYears}
      \cup {[ok |-> FALSE, start |-> Null, end |-> Null, dept |-> ""]}

\* The records the registry may send for one identifier, holding at most n
\* employment entries.
SearchRecords(n) ==
    {RecordOf(FALSE, <<>>, <<>>)}
      \cup {RecordOf(TRUE, SearchEmails, emps) : emps \in SeqsUpTo(SearchEntries, n)}

\* ---------------------------------------------------------------- search
\* Lines 16-25 and 103-110: the telemetry dict, all zero and empty.
FreshResults ==
    [total_found |-> 0, processed |-> 0, successful |-> 0, errors |-> 0,
     orcid_ids |-> <<>>, error_details |-> <<>>]

\* build_email_query: one "email:*@domain" term per domain, joined by " OR ".
\* The query string is modelled by the sequence of its terms.
build_email_query(ds) == [i \in DOMAIN ds |-> <<"email:*@", ds[i]>>]

SearchRequest(ds, max_results) ==
    [kind |-> "search", url |-> <<BASE_URL, "/search">>,
     q |-> build_email_query(ds), rows |-> max_results]

RecordRequest(orcid_id) ==
    [kind |-> "record", url |-> <<BASE_URL, "/", orcid_id, "/record">>]

\* The default of the max_results parameter.
DefaultMaxResults == 1000

\* Lines 200-201: Duration recomputed from the year columns of the DataFrame.
WithDuration(row) ==
    [row EXCEPT !.duration = NumSub(to_numeric(row.end), to_numeric(row.start))]

\* Lines 182-211: the DataFrame built from all_affiliations.
BuildFrame(affs) ==
    IF Len(affs) > 0
    THEN [cols |-> ParseColumns \cup RequiredColumns \cup {"Duration"},
          rows |-> [i \in DOMAIN affs |-> WithDuration(affs[i])]]
    ELSE [cols |-> EmptyColumns, rows |-> <<>>]

\* Lines 100-113: the call starts; telemetry is replaced by a fresh dict.
Call(ds) ==
    /\ pc = "idle"
    /\ domains' = ds
    /\ search_results' = FreshResults
    /\ all_affiliations' = <<>>
    /\ idx' = 1
    /\ served' = 0
    /\ requests' = <<>>
    /\ responses' = <<>>
    /\ pc' = "search"
    /\ calls' = calls + 1
    /\ UNCHANGED <<ret, earlier>>
    /\ UNCHANGED <<mvars, pvars, dvars>>

\* SearchFails with the exception re-raised to the caller after it is recorded.
SearchFailsReraised(e) ==
    /\ pc = "search"
    /\ requests' = Append(requests, SearchRequest(domains, DefaultMaxResults))
    /\ search_results' =
         [search_results EXCEPT
            !.error_details = Append(@, [error |-> e, stage |-> "search"])]
    /\ pc' = "raised"
    /\ UNCHANGED <<domains, all_affiliations, idx, served, responses, ret>>
    /\ UNCHANGED <<mvars, pvars, cvars, dvars>>

\* SearchFails with the failure also counted in errors.
SearchFailsCounted(e) ==
    /\ pc = "search"
    /\ requests' = Append(requests, SearchRequest(domains, DefaultMaxResults))
    /\ search_results' =
         [search_results EXCEPT
            !.errors = @ + 1,
            !.error_details = Append(@, [error |-> e, stage |-> "search"])]
    /\ pc' = "post"
    /\ UNCHANGED <<domains, all_affiliations, idx, served, responses, ret>>
    /\ UNCHANGED <<mvars, pvars, cvars, dvars>>

\* Lines 124-134 raising: the request is issued and fails (or its response cannot
\* be read); lines 175-180 record it and the for loop is never entered.
SearchFails(e) ==
    /\ pc = "search"
    /\ requests' = Append(requests, SearchRequest(domains, DefaultMaxResults))
    /\ search_results' =
         [search_results EXCEPT
            !.error_details = Append(@, [error |-> e, stage |-> "search"])]
    /\ pc' = "post"
    /\ UNCHANGED <<domains, all_affiliations, idx, served, responses, ret>>
    /\ UNCHANGED <<mvars, pvars, cvars, dvars>>

\* Lines 124-143: the search response names n identifiers and num-found = nf.
SearchOk(n, nf) ==
    /\ pc = "search"
    /\ requests' = Append(requests, SearchRequest(domains, DefaultMaxResults))
    /\ search_results' =
         [search_results EXCEPT !.total_found = nf, !.orcid_ids = ResponseIds(n)]
    /\ pc' = "loop"
    /\ UNCHANGED <<domains, all_affiliations, idx, served, responses, ret>>
    /\ UNCHANGED <<mvars, pvars, cvars, dvars>>

\* FetchFails with the failure leaving the for loop (the except outside the loop).
FetchFailsAborting(e) ==
    /\ pc = "loop"
    /\ idx <= Len(search_results.orcid_ids)
    /\ LET orcid_id == search_results.orcid_ids[idx] IN
       /\ requests' = Append(requests, RecordRequest(orcid_id))
       /\ responses' = Append(responses, [orcid_id |-> orcid_id, error |-> e])
       /\ search_results' =
            [search_results EXCEPT
               !.processed = @ + 1,
               !.errors = @ + 1,
               !.error_details =
                  Append(@, [orcid_id |-> orcid_id, error |-> e,
                             stage |-> "record_fetching"])]
    /\ idx' = idx + 1
    /\ pc' = "post"
    /\ UNCHANGED <<domains, all_affiliations, served, ret>>
    /\ UNCHANGED <<mvars, pvars, cvars, dvars>>

\* FetchFails with the failed identifier taken out of orcid_ids.
FetchFailsForgotten(e) ==
    /\ pc = "loop"
    /\ idx <= Len(search_results.orcid_ids)
    /\ LET orcid_id == search_results.orcid_ids[idx] IN
       /\ requests' = Append(requests, RecordRequest(orcid_id))
       /\ responses' = Append(responses, [orcid_id |-> orcid_id, error |-> e])
       /\ search_results' =
            [search_results EXCEPT
               !.processed = @ + 1,
               !.errors = @ + 1,
               !.orcid_ids = SubSeq(@, 1, idx - 1) \o SubSeq(@, idx + 1, Len(@)),
               !.error_details =
                  Append(@, [orcid_id |-> orcid_id, error |-> e,
                             stage |-> "record_fetching"])]
    /\ UNCHANGED <<pc, idx, domains, all_affiliations, served, ret>>
    /\ UNCHANGED <<mvars, pvars, cvars, dvars>>

\* FetchFails with the failure only logged: nothing is appended to error_details.
FetchFailsUnrecorded(e) ==
    /\ pc = "loop"
    /\ idx <= Len(search_results.orcid_ids)
    /\ LET orcid_id == search_results.orcid_ids[idx] IN
       /\ requests' = Append(requests, RecordRequest(orcid_id))
       /\ responses' = Append(responses, [orcid_id |-> orcid_id, error |-> e])
       /\ search_results' =
            [search_results EXCEPT !.processed = @ + 1, !.errors = @ + 1]
    /\ idx' = idx + 1
    /\ UNCHANGED <<pc, domains, all_affiliations, served, ret, calls, earlier>>
    /\ UNCHANGED <<mvars, pvars, dvars>>

\* Lines 146-152, 163-173: one loop iteration whose fetch raises.
FetchFails(e) ==
    /\ pc = "loop"
    /\ idx <= Len(search_results.orcid_ids)
    /\ LET orcid_id == search_results.orcid_ids[idx] IN
       /\ requests' = Append(requests, RecordRequest(orcid_id))
       /\ responses' = Append(responses, [orcid_id |-> orcid_id, error |-> e])
       /\ search_results' =
            [search_results EXCEPT
               !.processed = @ + 1,
               !.errors = @ + 1,
               !.error_details =
                  Append(@, [orcid_id |-> orcid_id, error |-> e,
                             stage |-> "record_fetching"])]
    /\ idx' = idx + 1
    /\ UNCHANGED <<pc, domains, all_affiliations, served, ret>>
    /\ UNCHANGED <<mvars, pvars, cvars, dvars>>

\* The telemetry after parse_record (lines 89-96) and lines 158-159.
AfterParse(results, parsed, orcid_id) ==
    LET counted == [results EXCEPT !.processed = @ + 1]
        caught ==
          IF parsed.error = "" THEN counted
          ELSE [counted EXCEPT
                  !.errors = @ + 1,
                  !.error_details =
                     Append(@, [orcid_id |-> orcid_id, error |-> parsed.error,
                                stage |-> "record_parsing"])]
    IN IF Len(parsed.affiliations) > 0
       THEN [caught EXCEPT !.successful = @ + 1]
       ELSE caught

\* Lines 146-161, 173: one loop iteration whose fetch returns the record.
FetchOk(record) ==
    /\ pc = "loop"
    /\ idx <= Len(search_results.orcid_ids)
    /\ served + Len(record.employments) <= MaxEntries
    /\ LET orcid_id == search_results.orcid_ids[idx]
           parsed == parse_record(record, orcid_id)
       IN /\ requests' = Append(requests, RecordRequest(orcid_id))
          /\ responses' = Append(responses, [orcid_id |-> orcid_id, record |-> record])
          /\ all_affiliations' = all_affiliations \o parsed.affiliations
          /\ search_results' = AfterParse(search_results, parsed, orcid_id)
    /\ served' = served + Len(record.employments)
    /\ idx' = idx + 1
    /\ UNCHANGED <<pc, domains, ret>>
    /\ UNCHANGED <<mvars, pvars, cvars, dvars>>

\* Line 146: the for loop is exhausted.
LoopEnds ==
    /\ pc = "loop"
    /\ idx > Len(search_results.orcid_ids)
    /\ pc' = "post"
    /\ UNCHANGED <<domains, search_results, all_affiliations, idx, served,
                   requests, responses, ret>>
    /\ UNCHANGED <<mvars, pvars, cvars, dvars>>

\* Lines 182-211: the table is built and returned with the telemetry.
Return ==
    /\ pc = "post"
    /\ ret' = BuildFrame(all_affiliations)
    /\ pc' = "done"
    /\ UNCHANGED <<domains, search_results, all_affiliations, idx, served,
                   requests, responses>>
    /\ UNCHANGED <<mvars, pvars, cvars, dvars>>

\* CallAgain with the telemetry dict of __init__ kept and never reset: the later call
\* goes on counting in the dict the earlier call returned.
CallAgainAccumulating(ds) ==
    /\ pc = "done"
    /\ calls < MaxCalls
    /\ earlier' = [at_return |-> search_results, same_dict |-> TRUE]
    /\ domains' = ds
    /\ all_affiliations' = <<>>
    /\ idx' = 1
    /\ served' = 0
    /\ requests' = <<>>
    /\ responses' = <<>>
    /\ pc' = "search"
    /\ calls' = calls + 1
    /\ UNCHANGED <<ret, search_results>>
    /\ UNCHANGED <<mvars, pvars, dvars>>

\* Lines 100-113 on an instance whose previous call has returned: the caller holds
\* the dict that call returned (line 204 or 211 returns self.search_results itself);
\* lines 103-110 bind self.search_results to a new dict and leave the old one alone.
CallAgain(ds) ==
    /\ pc = "done"
    /\ calls < MaxCalls
    /\ earlier' = [at_return |-> search_results, same_dict |-> FALSE]
    /\ domains' = ds
    /\ search_results' = FreshResults
    /\ all_affiliations' = <<>>
    /\ idx' = 1
    /\ served' = 0
    /\ requests' = <<>>
    /\ responses' = <<>>
    /\ pc' = "search"
    /\ calls' = calls + 1
    /\ UNCHANGED ret
    /\ UNCHANGED <<mvars, pvars, dvars>>

SearchInit ==
    /\ pc = "idle"
    /\ domains = <<>>
    /\ search_results = FreshResults
    /\ all_affiliations = <<>>
    /\ idx = 1
    /\ served = 0
    /\ requests = <<>>
    /\ responses = <<>>
    /\ ret = EmptyFrame
    /\ calls = 0
    /\ earlier = [at_return |-> FreshResults, same_dict |-> FALSE]

\* ---------------------------------------------------------------- merge inputs
\* None in the Email Addresses column.
EmailsNone == <<NoneStr>>

\* The dedup keys (ORCID ID, Start Year, End Year) of the rows of the input tables;
\* the role of every row is EMPLOYMENT.
MergeKeys == {<<"X", Num(1), Num(2)>>, <<"X", Num(1), Null>>, <<"Y", Num(1), Num(2)>>}

\* A row of an uploaded spreadsheet.  src: the Source column is "absent", holds
\* "null" or holds "upload" (File Upload); dur: the Duration column is "absent",
\* "stale" (a number that is not End Year - Start Year) or "derived".
FileRow(key, dept, src, dur) ==
    [id |-> key[1], role |-> "EMPLOYMENT", start |-> key[2], end |-> key[3],
     dept |-> dept,
     source |-> IF src = "upload" THEN "File Upload" ELSE NoneStr,
     duration |-> CASE dur = "absent" -> Null
                    [] dur = "stale" -> Num(9)
                    [] OTHER -> NumSub(key[3], key[2]),
     emails |-> EmailsNone]

FileColumns(src, dur) ==
    KeyColumns \cup {"Department"}
      \cup (IF src = "absent" THEN {} ELSE {"Source"})
      \cup (IF dur = "absent" THEN {} ELSE {"Duration"})

\* The tables pd.read_excel may give (streamlit_app.py line 54), and the empty
\* DataFrame the session starts with (line 31).
FileTables ==
    {EmptyFrame} \cup
    UNION {UNION {
        {[cols |-> FileColumns(src, dur),
          rows |-> [i \in DOMAIN ks |-> FileRow(ks[i][1], ks[i][2], src, dur)]]
           : ks \in SeqsUpTo(MergeKeys \X {"Physics", "Maths"}, MaxRows)}
        : src \in {"absent", "null", "upload"}} : dur \in {"absent", "stale", "derived"}}

\* A row of a table search_by_email_domains returned.
ApiRow(key) ==
    [id |-> key[1], role |-> "EMPLOYMENT", start |-> key[2], end |-> key[3],
     dept |-> "Chemistry", source |-> "ORCID API",
     duration |-> ParsedDuration(key[2], key[3]), emails |-> <<"pub@example.edu">>]

\* The tables search_by_email_domains returns, and the empty DataFrame the session
\* starts with (streamlit_app.py line 29).
ApiTables ==
    {EmptyFrame} \cup
    {BuildFrame([i \in DOMAIN ks |-> ApiRow(ks[i])]) : ks \in SeqsUpTo(MergeKeys, MaxRows)}

\* ---------------------------------------------------------------- merge
\* Lines 229-230: file_data['Source'] = 'File Upload' when the column is missing.
AddSource(t) ==
    IF "Source" \in t.cols THEN t
    ELSE [cols |-> t.cols \cup {"Source"},
          rows |-> [i \in DOMAIN t.rows |-> [t.rows[i] EXCEPT !.source = "File Upload"]]]

\* Lines 233-234: file_data['Email Addresses'] = None when the column is missing.
AddEmails(t) ==
    IF "Email Addresses" \in t.cols THEN t
    ELSE [cols |-> t.cols \cup {"Email Addresses"},
          rows |-> [i \in DOMAIN t.rows |-> [t.rows[i] EXCEPT !.emails = EmailsNone]]]

\* Lines 219-220 and 237-238: Duration is computed only when the column is missing;
\* reading a year column the table does not have raises KeyError.
DurationRaisesKeyError(t) ==
    "Duration" \notin t.cols /\ ~({"Start Year", "End Year"} \subseteq t.cols)

AddDuration(t) ==
    IF "Duration" \in t.cols THEN t
    ELSE [cols |-> t.cols \cup {"Duration"},
          rows |-> [i \in DOMAIN t.rows |-> WithDuration(t.rows[i])]]

\* Line 241: pd.concat([file_data, api_data], ignore_index=True).
concat(first, second) ==
    [cols |-> first.cols \cup second.cols, rows |-> first.rows \o second.rows]

\* The subset of drop_duplicates; missing values compare equal to each other.
KeyOf(row) == <<row.id, row.role, row.start, row.end>>

\* Lines 245-248: drop_duplicates(subset=key, keep='first').
RECURSIVE KeepFirst(_, _)
KeepFirst(rows, seen) ==
    IF Len(rows) = 0 THEN <<>>
    ELSE IF KeyOf(Head(rows)) \in seen THEN KeepFirst(Tail(rows), seen)
    ELSE <<Head(rows)>> \o KeepFirst(Tail(rows), seen \cup {KeyOf(Head(rows))})

\* drop_duplicates(subset=key, keep='last').
RECURSIVE KeepLast(_)
KeepLast(rows) ==
    IF Len(rows) = 0 THEN <<>>
    ELSE IF \E i \in 2..Len(rows) : KeyOf(rows[i]) = KeyOf(Head(rows))
         THEN KeepLast(Tail(rows))
         ELSE <<Head(rows)>> \o KeepLast(Tail(rows))

drop_duplicates_keep_last(t) == [cols |-> t.cols, rows |-> KeepLast(t.rows)]

\* Lines 245-248 with the result of drop_duplicates not assigned to merged_df.
drop_duplicates_unassigned(t) == t

drop_duplicates(t) == [cols |-> t.cols, rows |-> KeepFirst(t.rows, {})]

\* What a call leaves: whether it raised, the table it returned, which object that
\* table is ("file": file_data itself, "api": api_data itself, "new": a new
\* DataFrame, "none": the call raised), and file_data as the call left it.
Outcome(raised, t, is, file_after) ==
    [raised |-> raised, ret |-> t, is |-> is, file_after |-> file_after]

NoOutcome == Outcome(FALSE, EmptyFrame, "none", EmptyFrame)

\* Lines 227-251: both tables hold rows.  same: both arguments are one and the
\* same DataFrame object, so api_data has the columns added to file_data.
MergeBoth(api, file, same) ==
    LET got == AddEmails(AddSource(file))
        file_after == AddDuration(got)
        api_after == IF same THEN file_after ELSE api
        merged_df == concat(file_after, api_after)
    IN IF DurationRaisesKeyError(got)
       THEN Outcome(TRUE, EmptyFrame, "none", got)
       ELSE IF ~(KeyColumns \subseteq merged_df.cols)
       THEN Outcome(TRUE, EmptyFrame, "none", file_after)
       ELSE Outcome(FALSE, drop_duplicates(merged_df), "new", file_after)

\* Lines 217-221: the API table is empty.
MergeFileOnly(file) ==
    IF DurationRaisesKeyError(file)
    THEN Outcome(TRUE, EmptyFrame, "none", file)
    ELSE Outcome(FALSE, AddDuration(file), "file", AddDuration(file))

\* Lines 223-225: the file table is empty.
MergeApiOnly(api, file) == Outcome(FALSE, api, "api", file)

\* merge_with_existing_data(api_data, file_data).
merge_with_existing_data(api, file, same) ==
    IF IsEmpty(api) THEN MergeFileOnly(file)
    ELSE IF IsEmpty(file) THEN MergeApiOnly(api, file)
    ELSE MergeBoth(api, file, same)

\* The caller merges its API table and its file table.
Merge ==
    /\ mpc = "start"
    /\ merged' = merge_with_existing_data(api_data, file_data, FALSE)
    /\ file_data' = merged'.file_after
    /\ mpc' = "merged"
    /\ UNCHANGED <<api_data, api_in, file_in, again>>
    /\ UNCHANGED <<svars, pvars, cvars, dvars>>

\* merge(merge(A, B), B): the caller merges the table it got with the same file table.
MergeAgain ==
    /\ mpc = "merged"
    /\ ~merged.raised
    /\ again' = merge_with_existing_data(merged.ret, file_data, merged.is = "file")
    /\ file_data' = again'.file_after
    /\ mpc' = "again"
    /\ UNCHANGED <<api_data, api_in, file_in, merged>>
    /\ UNCHANGED <<svars, pvars, cvars, dvars>>

MergeIdle ==
    /\ mpc = "start"
    /\ api_data = EmptyFrame
    /\ file_data = EmptyFrame
    /\ api_in = EmptyFrame
    /\ file_in = EmptyFrame
    /\ merged = NoOutcome
    /\ again = NoOutcome

MergeInit ==
    /\ mpc = "start"
    /\ api_data \in ApiTables
    /\ file_data \in FileTables
    /\ api_in = api_data
    /\ file_in = file_data
    /\ merged = NoOutcome
    /\ again = NoOutcome

\* ---------------------------------------------------------------- parse inputs
\* The identifier parse_record is called with.
ParseId == "A001"

PlainEntry == [ok |-> TRUE, start |-> Num(1), end |-> Num(2), dept |-> "Physics"]

\* The records handed to parse_record: one whose person section is malformed, every
\* email section of at most MaxEmails entries, and every employment section of at
\* most MaxEntries entries.
ParsePayloads ==
    {RecordOf(FALSE, <<>>, <<>>)}
      \cup {RecordOf(TRUE, ems, <<PlainEntry>>) : ems \in SeqsUpTo(EmailEntries, MaxEmails)}
      \cup {RecordOf(TRUE, SearchEmails, emps) : emps \in SeqsUpTo(Entries, MaxEntries)}

NoRecord == RecordOf(FALSE, <<>>, <<>>)

NoParse == [affiliations |-> <<>>, emails |-> <<>>, error |-> ""]

\* ---------------------------------------------------------------- parse
\* One call parse_record(payload, ParseId), lines 33-98.
Parse ==
    /\ ppc = "start"
    /\ parse_out' = parse_record(payload, ParseId)
    /\ ppc' = "parsed"
    /\ UNCHANGED payload
    /\ UNCHANGED <<svars, mvars, cvars, dvars>>

ParseIdle ==
    /\ ppc = "idle"
    /\ payload = NoRecord
    /\ parse_out = NoParse

ParseInit ==
    /\ ppc = "start"
    /\ payload \in ParsePayloads
    /\ parse_out = NoParse

\* ---------------------------------------------------------------- dashboard inputs
\* A value held in st.session_state: a DataFrame, or the (DataFrame, telemetry)
\* tuple search_by_email_domains returns.  The telemetry field of a DataFrame value
\* is a filler.
AsTable(t) == [kind |-> "DataFrame", df |-> t, telemetry |-> FreshResults]

AsTuple(result) == [kind |-> "tuple", df |-> result.df, telemetry |-> result.telemetry]

\* What search_by_email_domains returns (orcid_api.py lines 204, 208-211): after a
\* search-level failure, and after a search that found one identifier.
SearchReturns ==
    {[df |-> BuildFrame(<<>>),
      telemetry |-> [FreshResults EXCEPT
                       !.error_details = <<[error |-> "ConnectionError", stage |-> "search"]>>]]}
      \cup {LET found == parse_record(rec, IdNames[1])
            IN [df |-> BuildFrame(found.affiliations),
                telemetry |-> AfterParse([FreshResults EXCEPT !.total_found = 1,
                                                               !.orcid_ids = ResponseIds(1)],
                                         found, IdNames[1])]
            : rec \in SearchRecords(1)}

\* The upload widget: empty, holding a workbook pd.read_excel reads into a table of
\* at most one row, or holding one it cannot read.
NoFile == [present |-> FALSE, readable |-> FALSE, df |-> EmptyFrame]

UploadedFiles ==
    {[present |-> TRUE, readable |-> FALSE, df |-> EmptyFrame]}
      \cup {[present |-> TRUE, readable |-> TRUE, df |-> t]
              : t \in {f \in FileTables :
                          /\ Len(f.rows) <= 1
                          /\ \A i \in DOMAIN f.rows : f.rows[i].dept = "Physics"}}

\* The text of the email-domains box.
DomainTexts == {"", "example.edu"}

\* ---------------------------------------------------------------- dashboard
\* value.empty: a tuple has no such attribute, the access raises AttributeError.
EmptyRaises(value) == value.kind = "tuple"

\* Lines 48-59: the workbook the widget holds is read on every script run; a failure
\* of pd.read_excel is caught and leaves file_data as it was.
AfterUpload(ss, up) ==
    IF up.present /\ up.readable THEN [ss EXCEPT !.file_data = AsTable(up.df)] ELSE ss

\* Lines 70-76: the search button with a non-empty domains box stores what
\* search_by_email_domains returned, as returned, in api_data.
AfterSearch(ss, click, text, result) ==
    IF click = "search" /\ text # "" THEN [ss EXCEPT !.api_data = AsTuple(result)] ELSE ss

\* Line 80: not file_data.empty or not api_data.empty, evaluated left to right.
Line80Raises(ss) ==
    \/ EmptyRaises(ss.file_data)
    \/ IsEmpty(ss.file_data.df) /\ EmptyRaises(ss.api_data)

MergeShown(ss) == ~IsEmpty(ss.file_data.df) \/ ~IsEmpty(ss.api_data.df)

\* Lines 81-87: the merge button.  merge_with_existing_data reads api_data.empty
\* first (orcid_api.py line 217), and file_data.empty when api_data holds rows.
AfterMerge(ss) ==
    IF EmptyRaises(ss.api_data)
    THEN [ss |-> ss, error |-> "AttributeError"]
    ELSE IF ~IsEmpty(ss.api_data.df) /\ EmptyRaises(ss.file_data)
    THEN [ss |-> ss, error |-> "AttributeError"]
    ELSE LET out == merge_with_existing_data(ss.api_data.df, ss.file_data.df, FALSE)
         IN IF out.raised
            THEN [ss |-> [ss EXCEPT !.file_data = AsTable(out.file_after)],
                  error |-> "KeyError"]
            ELSE [ss |-> [ss EXCEPT !.file_data = AsTable(out.file_after),
                                    !.merged_data = AsTable(out.ret)],
                  error |-> ""]

\* Lines 89-102: the analysis tab selects merged_data if it holds rows, else
\* file_data, else api_data, else stops the run.
Selection(ss) ==
    IF EmptyRaises(ss.merged_data) THEN [active |-> "none", error |-> "AttributeError"]
    ELSE IF ~IsEmpty(ss.merged_data.df) THEN [active |-> "merged_data", error |-> ""]
    ELSE IF EmptyRaises(ss.file_data) THEN [active |-> "none", error |-> "AttributeError"]
    ELSE IF ~IsEmpty(ss.file_data.df) THEN [active |-> "file_data", error |-> ""]
    ELSE IF EmptyRaises(ss.api_data) THEN [active |-> "none", error |-> "AttributeError"]
    ELSE IF ~IsEmpty(ss.api_data.df) THEN [active |-> "api_data", error |-> ""]
    ELSE [active |-> "stop", error |-> ""]

\* One run of the script, top to bottom, for one user interaction: click is the
\* button pressed ("search", "merge" or "none").  An uncaught exception ends the run.
ScriptRun(ss, up, click, text, result) ==
    LET searched == AfterSearch(AfterUpload(ss, up), click, text, result)
        halted(at, e) == [session_state |-> at, merge_button |-> FALSE,
                          run_error |-> e, active |-> "none"]
    IN IF Line80Raises(searched) THEN halted(searched, "AttributeError")
       ELSE LET shown == MergeShown(searched)
                merge == IF shown /\ click = "merge" THEN AfterMerge(searched)
                         ELSE [ss |-> searched, error |-> ""]
                chosen == Selection(merge.ss)
            IN IF merge.error # "" THEN halted(merge.ss, merge.error)
               ELSE [session_state |-> merge.ss, merge_button |-> shown,
                     run_error |-> chosen.error, active |-> chosen.active]

\* The run's outcome becomes the state.
Ran(run) ==
    /\ session_state' = run.session_state
    /\ merge_button' = run.merge_button
    /\ run_error' = run.run_error
    /\ active' = run.active

\* The user puts a workbook into the upload widget.
Upload(up) ==
    /\ uploaded_file' = up
    /\ Ran(ScriptRun(session_state, up, "none", "", CHOOSE r \in SearchReturns : TRUE))
    /\ UNCHANGED <<svars, mvars, pvars, cvars>>

\* The user presses "Search ORCID Registry".
SearchClick(text, result) ==
    /\ Ran(ScriptRun(session_state, uploaded_file, "search", text, result))
    /\ UNCHANGED uploaded_file
    /\ UNCHANGED <<svars, mvars, pvars, cvars>>

\* The user presses "Merge File and API Data", which the last run rendered.
MergeClick ==
    /\ merge_button
    /\ Ran(ScriptRun(session_state, uploaded_file, "merge", "",
                     CHOOSE r \in SearchReturns : TRUE))
    /\ UNCHANGED uploaded_file
    /\ UNCHANGED <<svars, mvars, pvars, cvars>>

\* Lines 27-33, and the first script run: three empty DataFrames, nothing uploaded.
DashInit ==
    /\ session_state = [api_data |-> AsTable(EmptyFrame), file_data |-> AsTable(EmptyFrame),
                        merged_data |-> AsTable(EmptyFrame)]
    /\ uploaded_file = NoFile
    /\ merge_button = FALSE
    /\ run_error = ""
    /\ active = "stop"

\* ---------------------------------------------------------------- specifications
\* The search client: one search_by_email_domains call.
Init == SearchInit /\ MergeIdle /\ ParseIdle /\ DashInit

Next ==
    \/ \E ds \in DomainLists : Call(ds)
    \/ \E e \in SearchErrors : SearchFails(e)
    \/ \E n \in 0..MaxIds : \E nf \in {n, n + 1} : SearchOk(n, nf)
    \/ \E e \in FetchErrors : FetchFails(e)
    \/ \E record \in SearchRecords(MaxEntries) : FetchOk(record)
    \/ LoopEnds
    \/ Return

Spec == Init /\ [][Next]_vars

\* The merge engine: merge_with_existing_data on two tables, then once more on its
\* result and the same file table.
MergeSpecInit == MergeInit /\ SearchInit /\ ParseIdle /\ DashInit

MergeNext ==
    \/ Merge
    \/ MergeAgain

MergeSpec == MergeSpecInit /\ [][MergeNext]_vars

\* The parser: parse_record on one record.
ParseSpecInit == ParseInit /\ SearchInit /\ MergeIdle /\ DashInit

ParseNext == Parse

ParseSpec == ParseSpecInit /\ [][ParseNext]_vars

\* The search client called repeatedly on one instance; each call finds at most one
\* identifier, whose record holds at most one employment entry.
CallsNext ==
    \/ \E ds \in DomainLists : Call(ds)
    \/ \E ds \in DomainLists : CallAgain(ds)
    \/ \E e \in SearchErrors : SearchFails(e)
    \/ \E n \in 0..1 : SearchOk(n, n)
    \/ \E e \in FetchErrors : FetchFails(e)
    \/ \E record \in SearchRecords(1) : FetchOk(record)
    \/ LoopEnds
    \/ Return

CallsSpec == Init /\ [][CallsNext]_vars

\* The dashboard: script runs of streamlit_app.py on one session, one per user
\* interaction.
DashNext ==
    \/ \E up \in UploadedFiles : Upload(up)
    \/ \E text \in DomainTexts : \E result \in SearchReturns : SearchClick(text, result)
    \/ MergeClick

DashSpec == Init /\ [][DashNext]_vars

\* ---------------------------------------------------------------- search claims
Telemetry == search_results

\* The call took the search-level failure path (lines 175-180).
SearchFailed ==
    \E i \in DOMAIN Telemetry.error_details : Telemetry.error_details[i].stage = "search"

Completed == pc = "done" /\ ~SearchFailed

\* The record-fetch requests issued so far, in order.
RecordRequests == SelectSeq(requests, LAMBDA r : r.kind = "record")

Answered(r) == "record" \in DOMAIN r

\* The rows the registry's answers parse to, in the order of the answers.
RECURSIVE RowsOf(_)
RowsOf(answers) ==
    IF Len(answers) = 0 THEN <<>>
    ELSE LET r == Head(answers) IN
         (IF Answered(r) THEN parse_record(r.record, r.orcid_id).affiliations ELSE <<>>)
           \o RowsOf(Tail(answers))

\* C1: after a call that completes without a search-level failure,
\* processed = successful + errors, whatever the per-identifier outcomes.
C1_ProcessedIsSuccessfulPlusErrors ==
    Completed /\ domains # <<>> => Telemetry.processed = Telemetry.successful + Telemetry.errors

\* C2: a per-identifier failure never aborts the batch.  At every point of a call
\* whose search succeeded, the record requests issued are those of the first
\* identifiers of the response, one each and in response order; at return every
\* identifier was requested, processed = len(orcid_ids), and the returned table holds
\* the rows of every answered record, in order, whatever happened to the others.
C2_FailureNeverAbortsBatch ==
    LET ids == Telemetry.orcid_ids IN
    /\ pc \in {"loop", "post", "done"} /\ ~SearchFailed =>
         /\ Len(RecordRequests) <= Len(ids)
         /\ \A i \in DOMAIN RecordRequests : RecordRequests[i] = RecordRequest(ids[i])
         /\ Len(responses) = Len(RecordRequests)
         /\ \A i \in DOMAIN responses : responses[i].orcid_id = ids[i]
         /\ Telemetry.processed = Len(RecordRequests)
    /\ Completed =>
         /\ Len(RecordRequests) = Len(ids)
         /\ Telemetry.processed = Len(ids)
         /\ Len(ret.rows) = Len(RowsOf(responses))
         /\ \A i \in DOMAIN ret.rows : ret.rows[i] = WithDuration(RowsOf(responses)[i])

\* C2 witness: the first identifier's fetch failed and a later identifier's rows are
\* in the returned table.
C2_Witness ==
    /\ Completed
    /\ Len(responses) >= 2
    /\ ~Answered(responses[1])
    /\ \E i \in DOMAIN ret.rows : ret.rows[i].id = responses[2].orcid_id

\* C3: when the top-level search request fails, the call does not raise, issues no
\* record-fetch request, appends exactly one error_details entry, with stage
\* "search", and returns the empty table with the telemetry.
C3_SearchFailureIsRecordedOnce ==
    SearchFailed =>
        /\ pc \in {"post", "done"}
        /\ RecordRequests = <<>>
        /\ Len(Telemetry.error_details) = 1
        /\ Telemetry.error_details[1].stage = "search"
        /\ Telemetry.processed = 0
        /\ pc = "done" => ret = [cols |-> EmptyColumns, rows |-> <<>>]

\* C3 witness: a call whose search request failed has returned.
C3_Witness == pc = "done" /\ SearchFailed /\ Len(requests) = 1

\* C4: a call with an empty domain list fails fast, before any network call: no
\* search request and no record request is ever sent.
C4_EmptyDomainsSendNothing ==
    pc # "idle" /\ domains = <<>> => requests = <<>>

\* ---------------------------------------------------------------- merge claims
Returned == mpc = "merged" /\ ~merged.raised

Keys(t) == [i \in DOMAIN t.rows |-> KeyOf(t.rows[i])]

KeySet(t) == {KeyOf(t.rows[i]) : i \in DOMAIN t.rows}

HasDuplicateKeys(t) == Cardinality(KeySet(t)) < Len(t.rows)

\* The rows of t that carry key k, in order.
WithKey(t, k) == SelectSeq(t.rows, LAMBDA r : KeyOf(r) = k)

\* Row r has the values of row f in every column of cols.
AgreesOn(r, f, cols) ==
    /\ r.id = f.id /\ r.role = f.role /\ r.start = f.start /\ r.end = f.end
    /\ "Department" \in cols => r.dept = f.dept
    /\ "Source" \in cols => r.source = f.source
    /\ "Duration" \in cols => r.duration = f.duration
    /\ "Email Addresses" \in cols => r.emails = f.emails

\* C5: existing wins.  With both tables non-empty, for every key that a file row and
\* an API row share, the merged table holds exactly one row with that key, and it
\* has the column values of the file row (of the first file row with that key, when
\* the file table holds several), whatever the API row holds in those columns.
C5_ExistingRowWins ==
    Returned /\ ~IsEmpty(api_in) /\ ~IsEmpty(file_in) =>
        \A k \in KeySet(file_in) \cap KeySet(api_in) :
            /\ Len(WithKey(merged.ret, k)) = 1
            /\ AgreesOn(WithKey(merged.ret, k)[1], WithKey(file_in, k)[1], file_in.cols)
            /\ WithKey(merged.ret, k)[1].dept # WithKey(api_in, k)[1].dept

\* C5 witness: a file row and an API row share a key, and the merge has returned.
C5_Witness ==
    /\ Returned
    /\ KeySet(file_in) \cap KeySet(api_in) # {}
    /\ Len(merged.ret.rows) < Len(file_in.rows) + Len(api_in.rows)

\* C6 as claimed: merge(merge(A, B), B) has the rows of merge(A, B) on the dedup key,
\* none added and none removed, for all tables A and B.
C6_RepeatedMergeKeepsRows ==
    mpc = "again" /\ ~again.raised => Keys(again.ret) = Keys(merged.ret)

\* C6 as amended: merge(merge(A, B), B) returns, and holds exactly the dedup keys of
\* merge(A, B); its rows carry them in the same order, none added and none removed,
\* unless A (api_data) is empty and B (file_data) holds duplicate keys.
C6_RepeatedMergeKeepsKeys ==
    mpc = "again" =>
        /\ ~again.raised
        /\ KeySet(again.ret) = KeySet(merged.ret)
        /\ ~(IsEmpty(api_in) /\ HasDuplicateKeys(file_in)) =>
               Keys(again.ret) = Keys(merged.ret)

\* C6 witness: the repeated merge had both tables non-empty, with a key of B already
\* in merge(A, B).
C6_Witness ==
    /\ mpc = "again"
    /\ again.is = "new"
    /\ ~IsEmpty(api_in)
    /\ KeySet(file_in) \cap KeySet(api_in) # {}
    /\ KeySet(api_in) \ KeySet(file_in) # {}

\* C7: merging a table A that holds rows with an empty table, in either argument
\* position, returns exactly the rows of A in a table that has a Source column (File
\* Upload where A had none) and a Duration column.
C7_EmptyMergeCarriesSourceAndDuration ==
    mpc = "merged" /\ IsEmpty(api_in) # IsEmpty(file_in) =>
        LET A == IF IsEmpty(api_in) THEN file_in ELSE api_in IN
        /\ ~merged.raised
        /\ Keys(merged.ret) = Keys(A)
        /\ {"Source", "Duration"} \subseteq merged.ret.cols
        /\ "Source" \notin A.cols =>
              \A i \in DOMAIN merged.ret.rows : merged.ret.rows[i].source = "File Upload"

\* C8: the call mutates neither input (here: of a file table that holds rows): afterwards api_data and file_data have the
\* columns and the rows they had before, and the returned table is not an input
\* that was modified.
C8_InputsAreNotMutated ==
    mpc = "merged" /\ ~IsEmpty(file_in) =>
        /\ api_data = api_in
        /\ file_data = file_in
        /\ merged.is = "file" => merged.ret = file_in
        /\ merged.is = "api" => merged.ret = api_in

\* C9: every row of every returned table has a non-null ORCID ID, a non-null role and
\* a non-null Source, in all three branches.
C9_RowsHaveIdRoleAndSource ==
    Returned =>
        /\ Len(merged.ret.rows) > 0 => "Source" \in merged.ret.cols
        /\ \A i \in DOMAIN merged.ret.rows :
              /\ merged.ret.rows[i].id # NoneStr
              /\ merged.ret.rows[i].role # NoneStr
              /\ merged.ret.rows[i].source # NoneStr

\* C10: in every returned table each row's Duration is End Year - Start Year when
\* both years are present and absent otherwise; it is recomputed, never taken over
\* from a Duration column of an input.
C10_DurationIsRecomputed ==
    Returned =>
        \A i \in DOMAIN merged.ret.rows :
            LET r == merged.ret.rows[i] IN
            /\ "Duration" \in merged.ret.cols
            /\ r.duration = NumSub(to_numeric(r.end), to_numeric(r.start))

\* ---------------------------------------------------------------- parse claims
\* parse_record has returned.
Parsed == ppc = "parsed"

\* A record whose sections have the registry's shape and whose years are numbers
\* or absent.
ValidPayload(r) ==
    /\ r.person_ok
    /\ \A i \in DOMAIN r.employments :
         /\ r.employments[i].ok
         /\ r.employments[i].start # NonNumeric
         /\ r.employments[i].end # NonNumeric

\* C11: for a valid record with N employment entries parse_record returns exactly N
\* rows, each with role EMPLOYMENT, and a row's Duration is End Year - Start Year
\* when both years of its entry are numeric (0 included) and absent otherwise.
C11_RowPerEntryWithDuration ==
    Parsed /\ ValidPayload(payload) =>
      /\ Len(parse_out.affiliations) = Len(payload.employments)
      /\ \A i \in DOMAIN parse_out.affiliations :
           LET emp == payload.employments[i]
               row == parse_out.affiliations[i]
           IN /\ row.role = "EMPLOYMENT"
              /\ IF IsNum(emp.start) /\ IsNum(emp.end)
                 THEN row.duration = Num(emp.end.v - emp.start.v)
                 ELSE IsNull(row.duration)

\* The entries of an email section that carry an address and are public.
IsPublicAddress(e) == e.visibility = "public" /\ e.email # ""

EntriesFor(id) ==
    {j \in DOMAIN Telemetry.error_details :
       /\ "orcid_id" \in DOMAIN Telemetry.error_details[j]
       /\ Telemetry.error_details[j].orcid_id = id}

\* The positions of the record fetches that failed, and of the fetched records on
\* which parse_record caught an exception, or from which it returned rows.
FailedFetches == {i \in DOMAIN responses : ~Answered(responses[i])}

ParseFailures ==
    {i \in DOMAIN responses :
       /\ Answered(responses[i])
       /\ parse_record(responses[i].record, responses[i].orcid_id).error # ""}

WithRows ==
    {i \in DOMAIN responses :
       /\ Answered(responses[i])
       /\ Len(parse_record(responses[i].record, responses[i].orcid_id).affiliations) > 0}

\* C13: for each identifier whose record fetch failed, error_details holds exactly
\* one entry for it, {identifier, error, stage "record_fetching"}; the failure adds
\* one to errors and nothing to successful; no row of the call carries the identifier.
C13_FetchFailureIsRecordedOnce ==
    /\ \A i \in FailedFetches :
         LET id == responses[i].orcid_id IN
         /\ Cardinality(EntriesFor(id)) = 1
         /\ \A j \in EntriesFor(id) :
              Telemetry.error_details[j] =
                [orcid_id |-> id, error |-> responses[i].error, stage |-> "record_fetching"]
         /\ \A k \in DOMAIN all_affiliations : all_affiliations[k].id # id
         /\ pc = "done" => \A k \in DOMAIN ret.rows : ret.rows[k].id # id
    /\ Telemetry.errors = Cardinality(FailedFetches) + Cardinality(ParseFailures)
    /\ Telemetry.successful = Cardinality(WithRows)

\* C13 witness: identifiers A001 (one employment 2015-2020) and A002 (HTTP error) gave
\* one row with Duration 5 and Source "ORCID API", and telemetry total_found 2,
\* processed 2, successful 1, errors 1.
C13_Witness ==
    /\ pc = "done"
    /\ Telemetry.orcid_ids = <<"A001", "A002">>
    /\ Len(responses) = 2
    /\ Answered(responses[1])
    /\ responses[1].record.employments =
         <<[ok |-> TRUE, start |-> Num(2015), end |-> Num(2020), dept |-> "Physics"]>>
    /\ responses[2] = [orcid_id |-> "A002", error |-> "HTTPError"]
    /\ Len(ret.rows) = 1
    /\ ret.rows[1].id = "A001" /\ ret.rows[1].duration = Num(5)
    /\ ret.rows[1].source = "ORCID API"
    /\ Telemetry.total_found = 2 /\ Telemetry.processed = 2
    /\ Telemetry.successful = 1 /\ Telemetry.errors = 1
    /\ Telemetry.error_details =
         <<[orcid_id |-> "A002", error |-> "HTTPError", stage |-> "record_fetching"]>>

\* C14: when parse_record fails on a fetched record, at whatever point, error_details
\* holds exactly one entry for that identifier, with stage "record_parsing"; the
\* identifier contributes no row to the call's rows or the returned table and is not
\* counted in successful; the batch goes on to the next identifier.
C14_ParseFailureContributesNothing ==
    /\ \A i \in ParseFailures :
         LET id == responses[i].orcid_id IN
         /\ Cardinality(EntriesFor(id)) = 1
         /\ \A j \in EntriesFor(id) : Telemetry.error_details[j].stage = "record_parsing"
         /\ \A k \in DOMAIN all_affiliations : all_affiliations[k].id # id
         /\ pc = "done" => \A k \in DOMAIN ret.rows : ret.rows[k].id # id
    /\ Telemetry.successful = Cardinality(WithRows \ ParseFailures)
    /\ Completed => Len(responses) = Len(Telemetry.orcid_ids)

\* A fetched record of the registry's shape: its sections are JSON objects.
WellFormed(r) == r.person_ok /\ \A i \in DOMAIN r.employments : r.employments[i].ok

\* The rows of the current call that carry the identifier id, in order.
RowsFor(id) == SelectSeq(all_affiliations, LAMBDA row : row.id = id)

\* C15: a non-numeric year is treated as an absent year, not as a failure.  For every
\* well-formed record, no error is recorded for its identifier and every employment
\* entry gives a row; a row's year is absent where the entry's year is not a number,
\* and so is its Duration; the year columns of the returned table are numeric.
C15_NonNumericYearIsAbsent ==
    /\ \A i \in DOMAIN responses :
         Answered(responses[i]) /\ WellFormed(responses[i].record) =>
           LET id == responses[i].orcid_id
               emps == responses[i].record.employments
               rows == RowsFor(id)
           IN /\ EntriesFor(id) = {}
              /\ Len(rows) = Len(emps)
              /\ \A k \in DOMAIN rows :
                   /\ ~IsNum(emps[k].start) => IsNull(rows[k].start) /\ IsNull(rows[k].duration)
                   /\ ~IsNum(emps[k].end) => IsNull(rows[k].end) /\ IsNull(rows[k].duration)
    /\ pc = "done" =>
         \A k \in DOMAIN ret.rows :
           /\ IsNum(ret.rows[k].start) \/ IsNull(ret.rows[k].start)
           /\ IsNum(ret.rows[k].end) \/ IsNull(ret.rows[k].end)

\* C16: orcid_ids holds every identifier of the search response, in response order,
\* whatever happens to its fetch or parse: it is the response's identifier list from
\* the moment it is read, each identifier the call has attempted is at its position
\* in it, the identifiers of the rows are among its members, and it is at least as
\* long as successful.
C16_OrcidIdsHoldEveryIdentifier ==
    LET ids == Telemetry.orcid_ids IN
    /\ ids = ResponseIds(Len(ids))
    /\ Len(responses) <= Len(ids)
    /\ \A i \in DOMAIN responses : ids[i] = responses[i].orcid_id
    /\ \A k \in DOMAIN all_affiliations : \E i \in DOMAIN ids : ids[i] = all_affiliations[k].id
    /\ pc = "done" => \A k \in DOMAIN ret.rows : \E i \in DOMAIN ids : ids[i] = ret.rows[k].id
    /\ Len(ids) >= Telemetry.successful

\* C16 witness: a call has returned in which the first identifier's fetch failed, the
\* second identifier's record failed to parse, and both are in orcid_ids.
C16_Witness ==
    /\ pc = "done"
    /\ Telemetry.orcid_ids = <<"A001", "A002">>
    /\ FailedFetches = {1}
    /\ ParseFailures = {2}

\* The columns of a table returned with one or more rows (lines 182-201).
ColumnsWithRows == BuildFrame(<<Affiliation(PlainEntry, ParseId, <<>>)>>).cols

\* C17: the returned table has one fixed column set in every outcome: a table
\* returned without rows has the columns of a table returned with rows.
C17_FixedColumnSet ==
    pc = "done" => ret.cols = ColumnsWithRows

\* C18: in every row the pipeline produces, an End Year that is present is not before
\* the Start Year, and Duration is never negative.
C18_EndYearNotBeforeStartYear ==
    /\ \A k \in DOMAIN all_affiliations :
         LET row == all_affiliations[k] IN
         /\ IsNum(row.start) /\ IsNum(row.end) => row.end.v >= row.start.v
         /\ IsNum(row.duration) => row.duration.v >= 0
    /\ pc = "done" =>
         \A k \in DOMAIN ret.rows :
           LET row == ret.rows[k] IN
           /\ IsNum(row.start) /\ IsNum(row.end) => row.end.v >= row.start.v
           /\ IsNum(row.duration) => row.duration.v >= 0

\* ---------------------------------------------------------------- repeated-call claims
\* The content, now, of the dict the previous call returned.
EarlierNow == IF earlier.same_dict THEN search_results ELSE earlier.at_return

\* C19: telemetry is per call.  Every call starts from zero counters and empty
\* lists; while it runs and when it returns, its telemetry counts only its own
\* fetches; and the dict an earlier call returned still has the content it was
\* returned with.
C19_TelemetryIsPerCall ==
    /\ pc = "search" => Telemetry = FreshResults /\ all_affiliations = <<>>
    /\ pc \in {"loop", "post", "done"} =>
         /\ Telemetry.processed = Len(responses)
         /\ Telemetry.errors = Cardinality(FailedFetches) + Cardinality(ParseFailures)
         /\ Telemetry.successful = Cardinality(WithRows)
         /\ Len(Telemetry.error_details) <= Len(responses) + 1
    /\ calls >= 2 => EarlierNow = earlier.at_return

\* C19 witness: a first call returned with one failed fetch counted, and a second
\* call on the same instance has returned with one successful record and no error.
C19_Witness ==
    /\ calls = 2
    /\ pc = "done"
    /\ earlier.at_return.processed = 1 /\ earlier.at_return.errors = 1
    /\ Len(earlier.at_return.error_details) = 1
    /\ Telemetry.processed = 1 /\ Telemetry.successful = 1 /\ Telemetry.errors = 0
    /\ Telemetry.error_details = <<>>

\* ---------------------------------------------------------------- telemetry claims
\* The positions in error_details of the entries with one of the given stages.
EntriesWithStage(stages) ==
    {j \in DOMAIN Telemetry.error_details : Telemetry.error_details[j].stage \in stages}

\* errors counts the per-record entries; a "search" entry is alone of its kind and
\* names no identifier, every other entry names one.
ErrorsCountRecordEntries ==
    /\ Telemetry.errors =
         Cardinality(EntriesWithStage({"record_fetching", "record_parsing"}))
    /\ Cardinality(EntriesWithStage({"search"})) <= 1
    /\ \A j \in DOMAIN Telemetry.error_details :
         ("orcid_id" \in DOMAIN Telemetry.error_details[j])
           <=> Telemetry.error_details[j].stage # "search"

\* The step that ends the search request: a response that was read leaves
\* error_details empty; a failure leaves exactly one entry, {error, stage "search"},
\* and errors as it was.
SearchStepTellsFailure ==
    pc = "search" /\ pc' # "search" =>
      IF pc' = "loop"
      THEN search_results'.error_details = <<>>
      ELSE /\ Len(search_results'.error_details) = 1
           /\ DOMAIN search_results'.error_details[1] = {"error", "stage"}
           /\ search_results'.error_details[1].stage = "search"
           /\ search_results'.errors = search_results.errors

\* C20: in every state during and after a call, errors equals the number of
\* error_details entries with stage "record_fetching" or "record_parsing"; a
\* search-level failure adds one "search" entry, without identifier and without
\* touching errors, and a search that was answered adds none, so the "search" entry
\* tells a failed registry call from a zero-match result.
C20_ErrorsCountRecordEntries ==
    []ErrorsCountRecordEntries /\ [][SearchStepTellsFailure]_vars

\* C20 witness: a call has returned with one fetch failure and one parse failure
\* recorded and errors = 2.
C20_Witness ==
    /\ pc = "done"
    /\ Telemetry.errors = 2
    /\ Len(Telemetry.error_details) = 2
    /\ Telemetry.error_details[1].stage = "record_fetching"
    /\ Telemetry.error_details[2].stage = "record_parsing"

\* ---------------------------------------------------------------- dashboard claims
\* C21: after any sequence of file-upload, registry-search and merge actions,
\* api_data, file_data and merged_data each hold a table, never the (table,
\* telemetry) search result, so no script run fails on a non-table value in the
\* merge action or in the analysis tab's dataset selection.
C21_SessionStateHoldsTables ==
    /\ session_state.api_data.kind = "DataFrame"
    /\ session_state.file_data.kind = "DataFrame"
    /\ session_state.merged_data.kind = "DataFrame"
    /\ run_error # "AttributeError"

====
